---- MODULE Spec2Model ----
(***************************************************************************)
(* Model of the indexing / expiry / notification pipeline of nhsjobsearch: *)
(* database.py (index_jobs_with_diff, purge_expired), cronreindex.py       *)
(* (reindex_all_sources, the pending-notification file) and whatsappbot.py *)
(* (run_reindex, the morning digest).                                      *)
(*                                                                         *)
(* Text columns are sequences of character codes (ASCII), so that SQLite's *)
(* BINARY text comparison is computed character by character.  A column    *)
(* value is a record [null, text]: SQL NULL / Python None has null = TRUE. *)
(***************************************************************************)
EXTENDS Integers, Sequences, FiniteSets, TLC

VARIABLES
    db,             \* the rows of table jobs (database.py:13-28)
    now,            \* wall clock, in days since 2026-10-31
    op,             \* the operation that produced the current state
    jobs,           \* argument of the last index_jobs_with_diff call
    existing_urls,  \* its snapshot of stored URLs (database.py:54)
    new_jobs,       \* its first return value
    updated_jobs,   \* its second return value
    total_indexed,  \* its third return value
    removed,        \* return value of the last purge_expired call
    fetched,        \* what each source's connector did in the last reindex
    all_new_jobs,   \* list returned by the last reindex
    total,          \* second return value of the last run_reindex
    notifications_file, \* content of new_jobs.json, the pending queue
    returned,       \* what the last queue operation returned
    error,          \* the exception the last operation raised, if any
    enqueued,       \* history: every entry ever appended to the queue
    drained,        \* history: every entry ever returned by a drain
    bot_state,      \* the keys of whatsapp_state.json (BotState.state)
    outbox,         \* the send_whatsapp calls of the last notify action
    notify_new,     \* the new_jobs list of the last notify action
    notify_kind,    \* the slot of the last notify action: digest or alert
    split_header,   \* _split_messages: its header argument
    split_entries,  \* _split_messages: its job_entries argument
    split_footer,   \* _split_messages: its footer argument
    split_result,   \* _split_messages: the list of messages it returned
    lock,           \* the lock file reindex.lock
    pc,             \* where each cron invocation is in do_reindex
    uptime,         \* the clock the lock's age is measured on
    cron_result,    \* what the last do_reindex returned: (new_count, total)
    sched           \* the daemon's scheduler: started or not, time of day

storeVars == <<db, now, op, jobs, existing_urls, new_jobs, updated_jobs,
               total_indexed, removed>>

reindexVars == <<fetched, all_new_jobs, total>>

queueVars == <<notifications_file, returned, error, enqueued, drained>>

botVars == <<bot_state, outbox, notify_new, notify_kind>>

splitVars == <<split_header, split_entries, split_footer, split_result>>

lockVars == <<lock, pc, uptime>>

cycleVars == <<cron_result, sched>>

vars == <<storeVars, reindexVars, queueVars, botVars, splitVars, lockVars,
          cycleVars>>

(***************************************************************************)
(* Bounds                                                                  *)
(***************************************************************************)
MaxDay == 3
MaxBatch == 3
MaxDirectBatch == 1
MaxEnqueue == 2
MaxEnqueued == 3
MaxUptime == 4
MaxEntries == 3

(***************************************************************************)
(* Text values                                                             *)
(***************************************************************************)
Null == [null |-> TRUE, text |-> <<>>]

Str(s) == [null |-> FALSE, text |-> s]

Empty == Str(<<>>)

\* memcmp order of two texts: SQLite's BINARY collation for TEXT < TEXT.
RECURSIVE TextLess(_, _)
TextLess(a, b) ==
    IF b = <<>> THEN FALSE
    ELSE IF a = <<>> THEN TRUE
    ELSE IF Head(a) < Head(b) THEN TRUE
    ELSE IF Head(a) > Head(b) THEN FALSE
    ELSE TextLess(Tail(a), Tail(b))

Digit(n) == 48 + n

\* "2026-10-" and "2026-11-"
IsoOctober == <<50, 48, 50, 54, 45, 49, 48, 45>>

IsoNovember == <<50, 48, 50, 54, 45, 49, 49, 45>>

\* date('now') of SQLite: the clock formatted as YYYY-MM-DD.  Day 0 is
\* 2026-10-31, day d >= 1 is the d-th of November 2026.
ISODate(d) ==
    IF d = 0 THEN IsoOctober \o <<Digit(3), Digit(1)>>
    ELSE IsoNovember \o <<Digit(d \div 10), Digit(d % 10)>>

\* " October 2026" and " November 2026"
LongOctober == <<32, 79, 99, 116, 111, 98, 101, 114, 32, 50, 48, 50, 54>>

LongNovember == <<32, 78, 111, 118, 101, 109, 98, 101, 114, 32, 50, 48, 50, 54>>

\* The same day as the NHS Jobs site prints it ("24 March 2026"): day of
\* month without leading zero, month name, year.
NHSDate(d) ==
    IF d = 0 THEN <<Digit(3), Digit(1)>> \o LongOctober
    ELSE IF d < 10 THEN <<Digit(d)>> \o LongNovember
    ELSE <<Digit(d \div 10), Digit(d % 10)>> \o LongNovember

(***************************************************************************)
(* Listing records                                                         *)
(***************************************************************************)
\* JobItem(url, title=..., date_posted=..., closing_date=...): the other
\* attributes keep their default, the empty string.
JobItem(url, title, date_posted, closing_date) ==
    [url |-> url, title |-> title, employer |-> "", location |-> "",
     salary |-> "", date_posted |-> date_posted,
     closing_date |-> closing_date, contract_type |-> "",
     working_pattern |-> "", source |-> ""]

\* One row of table jobs: the columns of the record plus indexed_at, which
\* defaults to CURRENT_TIMESTAMP at the time the row is inserted.
Row(job, ts) ==
    [url |-> job.url, title |-> job.title, employer |-> job.employer,
     location |-> job.location, salary |-> job.salary,
     date_posted |-> job.date_posted, closing_date |-> job.closing_date,
     contract_type |-> job.contract_type,
     working_pattern |-> job.working_pattern, source |-> job.source,
     indexed_at |-> ts]

\* The record a stored row reads back as.
RowToJob(row) ==
    [url |-> row.url, title |-> row.title, employer |-> row.employer,
     location |-> row.location, salary |-> row.salary,
     date_posted |-> row.date_posted, closing_date |-> row.closing_date,
     contract_type |-> row.contract_type,
     working_pattern |-> row.working_pattern, source |-> row.source]

Urls(tbl) == {r.url : r \in tbl}

\* The URLs of a list of records.
BatchUrls(batch) == {batch[i].url : i \in 1..Len(batch)}

\* Sequences over S of length at most n.
SeqsUpTo(S, n) == UNION {[1..k -> S] : k \in 0..n}

(***************************************************************************)
(* database.py                                                             *)
(***************************************************************************)
\* A plain INSERT into a table without the primary key: nothing is replaced.
InsertOrReplace_NoReplace(tbl, row) == tbl \cup {row}

\* A field-level merge: an empty attribute of the incoming row keeps the
\* value of the stored row.
InsertOrReplace_Merge(tbl, row) ==
    {r \in tbl : r.url # row.url} \cup
    (IF \E r \in tbl : r.url = row.url
     THEN {[row EXCEPT !.employer = (IF @ = "" THEN r.employer ELSE @),
                       !.location = (IF @ = "" THEN r.location ELSE @),
                       !.salary = (IF @ = "" THEN r.salary ELSE @),
                       !.contract_type = (IF @ = "" THEN r.contract_type ELSE @),
                       !.working_pattern = (IF @ = "" THEN r.working_pattern ELSE @),
                       !.source = (IF @ = "" THEN r.source ELSE @)] :
              r \in {q \in tbl : q.url = row.url}}
     ELSE {row})

\* INSERT OR REPLACE of one row into a table whose primary key is url: the
\* conflicting row, if any, is deleted and the new row inserted.  The
\* statement names every column but indexed_at, which takes its default,
\* the time of the insertion, again.
InsertOrReplace(tbl, row) ==
    {r \in tbl : r.url # row.url} \cup {row}

\* An executemany that stops one row short.
RECURSIVE ExecuteMany_DropLast(_, _)
ExecuteMany_DropLast(tbl, rows) ==
    IF Len(rows) <= 1 THEN tbl
    ELSE ExecuteMany_DropLast({r \in tbl : r.url # Head(rows).url}
                                 \cup {Head(rows)}, Tail(rows))

\* executemany: the statement is run for every row, in order.
RECURSIVE ExecuteMany(_, _)
ExecuteMany(tbl, rows) ==
    IF rows = <<>> THEN tbl
    ELSE ExecuteMany(InsertOrReplace(tbl, Head(rows)), Tail(rows))

\* A classification that reads the stored URLs after the batch was written.
NewJobs_AfterWrite(batch, snapshot) ==
    SelectSeq(batch, LAMBDA j :
        j.url \notin snapshot \cup {batch[i].url : i \in 1..Len(batch)})

\* A classification that adds each URL to the snapshot as it goes, so that
\* only the first occurrence of a URL in the batch is new.
RECURSIVE FirstOccurrences(_, _)
FirstOccurrences(batch, seen) ==
    IF batch = <<>> THEN <<>>
    ELSE IF Head(batch).url \in seen
         THEN FirstOccurrences(Tail(batch), seen)
         ELSE <<Head(batch)>>
              \o FirstOccurrences(Tail(batch), seen \cup {Head(batch).url})

NewJobs_FirstOccurrence(batch, snapshot) == FirstOccurrences(batch, snapshot)

\* A classification that reports every record of the batch as new.
NewJobs_EveryCall(batch, snapshot) == batch

\* The loop of index_jobs_with_diff: a record goes to new_jobs when its URL
\* is not in the snapshot, to updated_jobs otherwise.
NewJobs(batch, snapshot) ==
    SelectSeq(batch, LAMBDA j : j.url \notin snapshot)

UpdatedJobs(batch, snapshot) ==
    SelectSeq(batch, LAMBDA j : j.url \in snapshot)

index_jobs_with_diff(batch) ==
    LET snapshot == Urls(db)
        rows == [i \in 1..Len(batch) |-> Row(batch[i], now)]
    IN  /\ existing_urls' = snapshot
        /\ jobs' = batch
        /\ new_jobs' = NewJobs(batch, snapshot)
        /\ updated_jobs' = UpdatedJobs(batch, snapshot)
        /\ db' = ExecuteMany(db, rows)
        /\ total_indexed' = Len(rows)
        /\ op' = "index"
        /\ UNCHANGED <<cycleVars, splitVars, lockVars, now, removed, reindexVars, queueVars, botVars>>

\* The WHERE clause of purge_expired:
\*   closing_date IS NOT NULL AND closing_date < date('now')
Expired(row, day) ==
    /\ ~row.closing_date.null
    /\ TextLess(row.closing_date.text, ISODate(day))

purge_expired ==
    /\ db' = {r \in db : ~Expired(r, now)}
    /\ removed' = Cardinality({r \in db : Expired(r, now)})
    /\ op' = "purge"
    /\ UNCHANGED <<cycleVars, splitVars, lockVars, now, jobs, existing_urls, new_jobs, updated_jobs,
                   total_indexed, reindexVars, queueVars, botVars>>

\* Time passes.
Tick ==
    /\ now < MaxDay
    /\ now' = now + 1
    /\ op' = "tick"
    /\ UNCHANGED <<cycleVars, splitVars, lockVars, db, jobs, existing_urls, new_jobs, updated_jobs,
                   total_indexed, removed, reindexVars, queueVars, botVars>>

(***************************************************************************)
(* Configuration and the reindex over all sources                          *)
(* (cronreindex.py reindex_all_sources, whatsappbot.py run_reindex)        *)
(***************************************************************************)
\* The SOURCE sections of the configuration, in file order, with the type
\* of each.  The three default sources and one section of a type that has
\* no connector.
SourceSections ==
    <<[section |-> "SOURCE:NHSJobs", type |-> "nhs"],
      [section |-> "SOURCE:Reed", type |-> "reed"],
      [section |-> "SOURCE:DWPFindAJob", type |-> "dwp"],
      [section |-> "SOURCE:IndeedUK", type |-> "indeed"]>>

CONNECTOR_MAP == {"nhs", "dwp", "indeed"}

\* What a connector's get_all_items_multi does: it raises, or it returns a
\* list of listings.  A section without a connector is never fetched.
Raised == [raised |-> TRUE, items |-> <<>>]

Returned(items) == [raised |-> FALSE, items |-> items]

NotFetched == [raised |-> FALSE, items |-> <<>>]

\* get_all_items_multi returned the items and index_jobs_with_diff raised
\* (sqlite3.OperationalError, disk full) in executemany or commit: the
\* exception leaves the try block like one of the connector, and the
\* transaction, never committed, is rolled back when the connection goes.
StorageFailed(items) == [raised |-> TRUE, items |-> items]

Fetchable == {i \in 1..Len(SourceSections) :
                 SourceSections[i].type \in CONNECTOR_MAP}

ConnectorOutcomes(batches) ==
    {[i \in 1..Len(SourceSections) |->
         IF i \in Fetchable THEN f[i] ELSE NotFetched] :
        f \in [Fetchable -> {Raised} \cup {Returned(b) : b \in batches}]}

\* A loop in which the exception of a connector ends the whole reindex.
RECURSIVE ReindexLoop_AbortOnFailure(_, _, _, _, _)
ReindexLoop_AbortOnFailure(i, tbl, all_new, count, outcomes) ==
    IF i > Len(SourceSections)
    THEN [db |-> tbl, all_new |-> all_new, total |-> count]
    ELSE IF SourceSections[i].type \notin CONNECTOR_MAP
    THEN ReindexLoop_AbortOnFailure(i + 1, tbl, all_new, count, outcomes)
    ELSE IF outcomes[i].raised
    THEN [db |-> tbl, all_new |-> all_new, total |-> count]
    ELSE LET items == outcomes[i].items
             rows == [k \in 1..Len(items) |-> Row(items[k], now)]
         IN  ReindexLoop_AbortOnFailure(i + 1, ExecuteMany(tbl, rows),
                 all_new \o NewJobs(items, Urls(tbl)),
                 count + Len(rows), outcomes)

\* The loop over the source sections, from section i on: a section whose
\* type has no connector is skipped; a connector that raises is logged and
\* the loop goes on; the items of any other are indexed and the new ones
\* appended to the result.
RECURSIVE ReindexLoop(_, _, _, _, _)
ReindexLoop(i, tbl, all_new, count, outcomes) ==
    IF i > Len(SourceSections)
    THEN [db |-> tbl, all_new |-> all_new, total |-> count]
    ELSE IF SourceSections[i].type \notin CONNECTOR_MAP
    THEN ReindexLoop(i + 1, tbl, all_new, count, outcomes)
    ELSE IF outcomes[i].raised
    THEN ReindexLoop(i + 1, tbl, all_new, count, outcomes)
    ELSE LET items == outcomes[i].items
             rows == [k \in 1..Len(items) |-> Row(items[k], now)]
         IN  ReindexLoop(i + 1, ExecuteMany(tbl, rows),
                 all_new \o NewJobs(items, Urls(tbl)),
                 count + Len(rows), outcomes)

\* cronreindex.py: returns the list of new jobs.
reindex_all_sources(outcomes) ==
    LET r == ReindexLoop(1, db, <<>>, 0, outcomes)
    IN  /\ fetched' = outcomes
        /\ db' = r.db
        /\ all_new_jobs' = r.all_new
        /\ op' = "reindex_all_sources"
        /\ UNCHANGED <<cycleVars, splitVars, lockVars, now, jobs, existing_urls, new_jobs, updated_jobs,
                       total_indexed, removed, total, queueVars, botVars>>

\* whatsappbot.py: returns the list of new jobs and the number indexed.
run_reindex(outcomes) ==
    LET r == ReindexLoop(1, db, <<>>, 0, outcomes)
    IN  /\ fetched' = outcomes
        /\ db' = r.db
        /\ all_new_jobs' = r.all_new
        /\ total' = r.total
        /\ op' = "run_reindex"
        /\ UNCHANGED <<cycleVars, splitVars, lockVars, now, jobs, existing_urls, new_jobs, updated_jobs,
                       total_indexed, removed, queueVars, botVars>>
(***************************************************************************)
(* The pending-notification queue, new_jobs.json (cronreindex.py)          *)
(***************************************************************************)
\* The file is missing, or holds text that is not JSON ("invalid"), or
\* JSON that is not an array, such as an object ("object"), or a JSON array
\* of notification entries ("array").
MissingFile == [kind |-> "missing", items |-> <<>>]

InvalidJson == [kind |-> "invalid", items |-> <<>>]

JsonObject == [kind |-> "object", items |-> <<>>]

JsonArray(items) == [kind |-> "array", items |-> items]

\* A Python value read from the file: a list, or the dict an object parses
\* to.
PyList(items) == [kind |-> "list", items |-> items]

PyDict == [kind |-> "dict", items |-> <<>>]

\* json.loads(path.read_text()) inside try / except (JSONDecodeError,
\* ValueError): text that is not JSON gives the fallback; any JSON value is
\* returned as parsed, whatever its type.
LoadsOr(file, fallback) ==
    IF file.kind = "invalid" THEN fallback
    ELSE IF file.kind = "object" THEN PyDict
    ELSE PyList(file.items)

NotificationEntry(job, ts) ==
    [timestamp |-> ts, title |-> job.title, employer |-> job.employer,
     location |-> job.location, salary |-> job.salary,
     contract_type |-> job.contract_type,
     working_pattern |-> job.working_pattern, url |-> job.url,
     source |-> job.source]

\* An append loop that starts from an empty list instead of the entries
\* already in the file.
Appended_Overwrite(existing, batch, ts) ==
    [i \in 1..Len(batch) |-> NotificationEntry(batch[i], ts)]

\* The loop of write_notifications: one entry per job, appended in order.
Appended(existing, batch, ts) ==
    existing \o [i \in 1..Len(batch) |-> NotificationEntry(batch[i], ts)]

\* existing.append raises AttributeError when existing is not a list; the
\* loop body runs only when there is a job to append.
write_notifications(batch) ==
    LET existing == IF notifications_file.kind = "missing" THEN PyList(<<>>)
                    ELSE LoadsOr(notifications_file, PyList(<<>>))
    IN  /\ Len(enqueued) + Len(batch) <= MaxEnqueued
        /\ IF existing.kind = "dict"
           THEN IF batch = <<>>
                THEN /\ notifications_file' = JsonObject
                     /\ error' = "none"
                     /\ UNCHANGED enqueued
                ELSE /\ error' = "AttributeError"
                     /\ UNCHANGED <<notifications_file, enqueued>>
           ELSE /\ notifications_file' =
                      JsonArray(Appended(existing.items, batch, now))
                /\ enqueued' = enqueued \o
                      [i \in 1..Len(batch) |-> NotificationEntry(batch[i], now)]
                /\ error' = "none"
        /\ returned' = PyList(<<>>)
        /\ op' = "write_notifications"
        /\ UNCHANGED <<cycleVars, splitVars, lockVars, db, now, jobs, existing_urls, new_jobs, updated_jobs,
                       total_indexed, removed, reindexVars, drained,
                       botVars>>

read_pending_notifications ==
    /\ returned' = IF notifications_file.kind = "missing" THEN PyList(<<>>)
                   ELSE LoadsOr(notifications_file, PyList(<<>>))
    /\ error' = "none"
    /\ op' = "read_pending_notifications"
    /\ UNCHANGED <<cycleVars, splitVars, lockVars, db, now, jobs, existing_urls, new_jobs, updated_jobs,
                   total_indexed, removed, reindexVars, notifications_file,
                   enqueued, drained, botVars>>

\* A consume that returns the entries and leaves the file as it is.
Cleared_Kept(file) == file

\* path.write_text('[]')
Cleared(file) == JsonArray(<<>>)

consume_notifications ==
    /\ IF notifications_file.kind = "missing"
       THEN /\ returned' = PyList(<<>>)
            /\ UNCHANGED notifications_file
       ELSE /\ returned' = LoadsOr(notifications_file, PyList(<<>>))
            /\ notifications_file' = Cleared(notifications_file)
    /\ drained' = drained \o returned'.items
    /\ error' = "none"
    /\ op' = "consume_notifications"
    /\ UNCHANGED <<cycleVars, splitVars, lockVars, db, now, jobs, existing_urls, new_jobs, updated_jobs,
                   total_indexed, removed, reindexVars, enqueued, botVars>>

(***************************************************************************)
(* Message formatting (whatsappbot.py).  A message is a sequence of text   *)
(* blocks; a block records what it is and how many characters it has.      *)
(***************************************************************************)
WHATSAPP_CHAR_LIMIT == 1500

Block(kind, len, part, of, url, count) ==
    [kind |-> kind, len |-> len, part |-> part, of |-> of, url |-> url,
     total |-> count]

\* String concatenation: appending the empty string adds nothing.
Cat(msg, block) == IF block.len = 0 THEN msg ELSE Append(msg, block)

RECURSIVE MsgLen(_)
MsgLen(msg) == IF msg = <<>> THEN 0 ELSE Head(msg).len + MsgLen(Tail(msg))

\* len(str(n))
Digits(n) == IF n < 10 THEN 1 ELSE IF n < 100 THEN 2 ELSE 3

\* len(s) of the strings the listings of this model use.
StrLen(s) ==
    CASE s = "" -> 0
      [] s \in {"u1", "u2", "u3", "u4"} -> 2
      [] s \in {"u10", "u11", "HCA"} -> 3
      \* a tracking URL of 800 characters, written short
      [] s \in {"indeed-a", "indeed-b"} -> 800
      [] s = "Role" -> 4
      [] s \in {"40,000", "London"} -> 6
      [] s \in {"Care Co", "Midwife", "Trust X"} -> 7
      [] s = "DWP role" -> 8
      [] s = "NHS role" -> 8
      [] s = "Pharmacist" -> 10
      [] s = "Indeed role" -> 11
      [] s = "Staff Nurse" -> 11
      [] s = "Radiographer" -> 12
      [] s = "Senior Nurse" -> 12
      [] s = "Care Assistant" -> 14
      [] s = "Senior Staff Nurse" -> 18

\* len(now.strftime('%A %d %B %Y')): day 0 is Saturday 31 October 2026.
DateStrLen(d) ==
    LET weekday == CASE d % 7 = 0 -> 8 [] d % 7 = 1 -> 6 [] d % 7 = 2 -> 6
                     [] d % 7 = 3 -> 7 [] d % 7 = 4 -> 9 [] d % 7 = 5 -> 8
                     [] d % 7 = 6 -> 6
        month == IF d = 0 THEN 7 ELSE 8
    IN  weekday + 1 + 2 + 1 + month + 1 + 4

\* _format_job_entry: "{i}. *{title}*\n   {employer}{salary_part}\n", then
\* "   {url}\n" if the URL is not empty, then "\n".  A title of more than
\* 60 characters is cut to 60 and an ellipsis, an employer to 40.
EntryLen(i, job) ==
    LET title == IF StrLen(job.title) > 60 THEN 61 ELSE StrLen(job.title)
        employer == IF StrLen(job.employer) > 40 THEN 41
                    ELSE StrLen(job.employer)
        salary_part == IF job.salary # "" THEN 3 + StrLen(job.salary) ELSE 0
        url_line == IF job.url # "" THEN 4 + StrLen(job.url) ELSE 0
    IN  Digits(i) + 3 + title + 2 + 3 + employer + salary_part + 1
        + url_line + 1

_format_job_entry(i, job) == Block("entry", EntryLen(i, job), i, 0, job.url, 0)

\* A marker that counts the parts written so far instead of all parts.
Marker_RunningCount(i, n) == Block("marker", Digits(i) + Digits(i) + 4, i, i, "", 0)

Marker(i, n) == Block("marker", Digits(i) + Digits(n) + 4, i, n, "", 0)

\* A loop that leaves out an entry that cannot fit in any message.
RECURSIVE SplitLoop_DropOversize(_, _, _, _, _, _)
SplitLoop_DropOversize(entries, messages, current_lines, current_len, header, footer) ==
    IF entries = <<>>
    THEN [messages |-> messages, current_lines |-> current_lines]
    ELSE LET entry == Head(entries)
             flush == /\ current_len + entry.len + footer.len
                            > WHATSAPP_CHAR_LIMIT
                      /\ current_lines # <<>>
             prefix == IF messages = <<>> THEN Cat(<<>>, header) ELSE <<>>
         IN  IF entry.len > WHATSAPP_CHAR_LIMIT
             THEN SplitLoop_DropOversize(Tail(entries), messages,
                                         current_lines, current_len,
                                         header, footer)
             ELSE IF flush
             THEN SplitLoop_DropOversize(Tail(entries),
                            Append(messages, prefix \o current_lines),
                            <<entry>>, entry.len, header, footer)
             ELSE SplitLoop_DropOversize(Tail(entries), messages,
                            Append(current_lines, entry),
                            current_len + entry.len, header, footer)

\* The loop of _split_messages over the entries not yet placed.
RECURSIVE SplitLoop(_, _, _, _, _, _)
SplitLoop(entries, messages, current_lines, current_len, header, footer) ==
    IF entries = <<>>
    THEN [messages |-> messages, current_lines |-> current_lines]
    ELSE LET entry == Head(entries)
             flush == /\ current_len + entry.len + footer.len
                            > WHATSAPP_CHAR_LIMIT
                      /\ current_lines # <<>>
             prefix == IF messages = <<>> THEN Cat(<<>>, header) ELSE <<>>
         IN  IF flush
             THEN SplitLoop(Tail(entries),
                            Append(messages, prefix \o current_lines),
                            <<entry>>, entry.len, header, footer)
             ELSE SplitLoop(Tail(entries), messages,
                            Append(current_lines, entry),
                            current_len + entry.len, header, footer)

_split_messages(header, job_entries, footer) ==
    LET loop == SplitLoop(job_entries, <<>>, <<>>, header.len, header, footer)
        prefix == IF loop.messages = <<>> THEN Cat(<<>>, header) ELSE <<>>
        flushed ==
            IF loop.current_lines # <<>> \/ loop.messages = <<>>
            THEN Append(loop.messages,
                        Cat(prefix \o loop.current_lines, footer))
            ELSE [loop.messages EXCEPT ![Len(loop.messages)] = Cat(@, footer)]
    IN  IF Len(flushed) > 1
        THEN [i \in 1..Len(flushed) |->
                 <<Marker(i, Len(flushed))>> \o flushed[i]]
        ELSE flushed

\* A digest that has nothing to say when there are no new jobs.
NoNewJobsDigest_Silent(total_in_db, day) == <<>>

\* The single message of a digest without new jobs: title line, date line,
\* "No new roles ..." and the number of jobs in the index.
NoNewJobsDigest(total_in_db, day) ==
    <<<<Block("no_new", 36 + 4 + DateStrLen(day) + 52 + 22 + Digits(total_in_db),
              0, 0, "", total_in_db)>>>>

format_morning_digest(new, total_in_db, day) ==
    IF new = <<>> THEN NoNewJobsDigest(total_in_db, day)
    ELSE LET n == Len(new)
             header == Block("header",
                             36 + 4 + DateStrLen(day) + 32 + Digits(n)
                                + (IF n # 1 THEN 1 ELSE 0),
                             0, 0, "", n)
             footer == Block("footer", 29 + Digits(total_in_db), 0, 0, "",
                             total_in_db)
             entries == [i \in 1..n |-> _format_job_entry(i, new[i])]
         IN  _split_messages(header, entries, footer)

(***************************************************************************)
(* The morning digest (whatsappbot.py action_morning_notify).  The table   *)
(* jobs exists: init_db has run.                                           *)
(***************************************************************************)
\* SQLite's order of two column values: NULL sorts before every text.
ColumnLess(a, b) ==
    IF a.null THEN ~b.null
    ELSE IF b.null THEN FALSE
    ELSE TextLess(a.text, b.text)

\* get_all_jobs: SELECT * FROM jobs ORDER BY date_posted DESC.  Every
\* listing of the rows in an order the ORDER BY allows; rows with equal
\* date_posted may come in any order.
get_all_jobs(tbl) ==
    {[i \in 1..Cardinality(tbl) |-> RowToJob(f[i])] :
        f \in {g \in [1..Cardinality(tbl) -> tbl] :
                 /\ \A i, k \in 1..Cardinality(tbl) : i # k => g[i] # g[k]
                 /\ \A i, k \in 1..Cardinality(tbl) :
                       i < k => ~ColumnLess(g[i].date_posted, g[k].date_posted)}}

\* The day a date_posted text parses to with datetime.fromisoformat or one
\* of the strptime formats ('%d %B %Y', '%Y-%m-%d', ...); -1 if none parses.
ParsedDay(text) ==
    IF \E d \in 0..(MaxDay + 1) : text = ISODate(d) \/ text = NHSDate(d)
    THEN CHOOSE d \in 0..(MaxDay + 1) : text = ISODate(d) \/ text = NHSDate(d)
    ELSE -1

\* _jobs_posted_since(jobs, hours=24): a date parses to midnight of its day,
\* the cutoff is 24 hours before the present time of day `day`, so a job
\* passes when it was posted on `day` or later.
_jobs_posted_since(all_jobs, day) ==
    SelectSeq(all_jobs, LAMBDA j :
        /\ ~j.date_posted.null
        /\ j.date_posted.text # <<>>
        /\ ParsedDay(j.date_posted.text) # -1
        /\ ParsedDay(j.date_posted.text) >= day)

\* A digest that leaves the baseline of the alerts as it was.
AfterDigest_KeepBaseline(state, success, all_jobs) ==
    IF success
    THEN [state EXCEPT !.last_morning_notify = now,
                       !.morning_job_urls = BatchUrls(all_jobs)]
    ELSE state

\* The state after the digest was handed to send_whatsapp_multi.
AfterDigest(state, success, all_jobs) ==
    IF success
    THEN [state EXCEPT !.last_morning_notify = now,
                       !.morning_job_urls = BatchUrls(all_jobs),
                       !.last_notify_urls = BatchUrls(all_jobs)]
    ELSE state

\* send_whatsapp_multi: every message is sent, whatever the earlier sends
\* returned; the result is whether all of them succeeded.
action_morning_notify_body ==
    \E all_jobs \in get_all_jobs(db) :
        LET total_count == Len(all_jobs)
            morning_urls == bot_state.morning_job_urls
            new == IF morning_urls # {}
                   THEN SelectSeq(all_jobs,
                            LAMBDA j : j.url \in Urls(db) \ morning_urls)
                   ELSE _jobs_posted_since(all_jobs, now)
            messages == format_morning_digest(new, total_count, now)
        IN  \E results \in [1..Len(messages) -> BOOLEAN] :
                LET success == \A i \in 1..Len(messages) : results[i]
                IN  /\ outbox' = [i \in 1..Len(messages) |->
                                    [body |-> messages[i], ok |-> results[i]]]
                    /\ notify_new' = new
                    /\ bot_state' = AfterDigest(bot_state, success,
                                                 all_jobs)
                    /\ notify_kind' = "digest"
                    /\ op' = "action_morning_notify"
                    /\ UNCHANGED <<cron_result, splitVars, lockVars, db, now,
                                   jobs, existing_urls, new_jobs,
                                   updated_jobs, total_indexed, removed,
                                   reindexVars, queueVars>>

action_morning_notify ==
    /\ action_morning_notify_body
    /\ UNCHANGED sched

\* format_interval_alert: "New roles just posted", the time ('%H:%M %d %b',
\* 12 characters), "{n} new role(s) since last check:", the entries, no
\* footer.
format_interval_alert(new) ==
    LET n == Len(new)
        head == Block("header",
                      26 + 2 + 12 + 2 + Digits(n) + 9
                         + (IF n # 1 THEN 1 ELSE 0) + 20,
                      0, 0, "", n)
        entries == [i \in 1..n |-> _format_job_entry(i, new[i])]
    IN  _split_messages(head, entries, Block("footer", 0, 0, 0, "", 0))

\* Both early returns of action_interval_notify: nothing is sent and no key
\* of the state is set.
SkipIntervalAlert ==
    /\ outbox' = <<>>
    /\ bot_state' = bot_state

\* An alert that skips only when the index is empty.
IntervalNew_All(all_jobs, baseline_urls) == all_jobs

\* An alert that compares with the baseline of the morning digest.
IntervalNew_SinceMorning(all_jobs, baseline_urls) ==
    SelectSeq(all_jobs, LAMBDA j : j.url \notin bot_state.morning_job_urls)

\* new_jobs of action_interval_notify: the jobs whose URL is not in the
\* baseline, in the order of all_jobs.
IntervalNew(all_jobs, baseline_urls) ==
    SelectSeq(all_jobs, LAMBDA j : j.url \in BatchUrls(all_jobs) \ baseline_urls)

\* The state after send_whatsapp_multi failed: no key is set.
AfterAlert_AdvanceOnFailure(state, success, all_jobs) ==
    [state EXCEPT !.last_interval_notify = now,
                  !.last_notify_urls = BatchUrls(all_jobs)]

\* The state after the alert was handed to send_whatsapp_multi.
AfterAlert(state, success, all_jobs) ==
    IF success
    THEN [state EXCEPT !.last_interval_notify = now,
                       !.last_notify_urls = BatchUrls(all_jobs)]
    ELSE state

\* An alert that goes on without a baseline.
NoBaseline_Never(baseline_urls) == FALSE

\* if not baseline_urls: the key is absent or holds the empty list.
NoBaseline(baseline_urls) == baseline_urls = {}

action_interval_notify ==
    \E all_jobs \in get_all_jobs(db) :
        LET baseline_urls == bot_state.last_notify_urls
            new == IF NoBaseline(baseline_urls) THEN <<>>
                   ELSE IntervalNew(all_jobs, baseline_urls)
            alert == format_interval_alert(new)
        IN  /\ IF NoBaseline(baseline_urls) \/ new = <<>>
               THEN SkipIntervalAlert
               ELSE \E results \in [1..Len(alert) -> BOOLEAN] :
                       LET success == \A i \in 1..Len(alert) : results[i]
                       IN  /\ outbox' = [i \in 1..Len(alert) |->
                                           [body |-> alert[i],
                                            ok |-> results[i]]]
                           /\ bot_state' = AfterAlert(bot_state, success,
                                                      all_jobs)
            /\ notify_new' = new
            /\ notify_kind' = "alert"
            /\ op' = "action_interval_notify"
            /\ UNCHANGED <<cycleVars, splitVars, lockVars, db, now, jobs, existing_urls,
                           new_jobs, updated_jobs, total_indexed, removed,
                           reindexVars, queueVars>>

(***************************************************************************)
(* The lock of the cron entry point (cronreindex.py acquire_lock and       *)
(* release_lock).  Every file system call of acquire_lock is a step of its *)
(* own: other invocations run between them.                                *)
(***************************************************************************)
Invocations == {"cron1", "cron2"}

\* The clock advances in steps of half an hour.
TickSeconds == 1800

LOCK_STALE_SECONDS == 3600

NoLock == [exists |-> FALSE, mtime |-> 0, pid |-> "none"]

LockOf(p) == [exists |-> TRUE, mtime |-> uptime, pid |-> p]

\* age = datetime.now().timestamp() - lock.stat().st_mtime
Age(file) == (uptime - file.mtime) * TickSeconds

Stale(file) == Age(file) > LOCK_STALE_SECONDS

\* What the steps of the lock leave alone.
LockFrame ==
    UNCHANGED <<db, now, jobs, existing_urls, new_jobs, updated_jobs,
                total_indexed, removed, reindexVars, queueVars, botVars,
                splitVars, cycleVars>>

\* if lock.exists():
acquire_lock_exists(p) ==
    /\ pc[p] = "idle"
    /\ pc' = [pc EXCEPT ![p] = IF lock.exists THEN "stat" ELSE "write"]
    /\ op' = "acquire_lock_exists"
    /\ LockFrame
    /\ UNCHANGED <<lock, uptime>>

\* lock.stat().st_mtime and the comparison with one hour: a fresh lock makes
\* acquire_lock return False; a lock removed since the call of exists()
\* makes stat() raise FileNotFoundError, which ends the invocation.
acquire_lock_stat(p) ==
    /\ pc[p] = "stat"
    /\ pc' = [pc EXCEPT ![p] = IF lock.exists /\ Stale(lock) THEN "unlink"
                               ELSE "idle"]
    /\ op' = "acquire_lock_stat"
    /\ LockFrame
    /\ UNCHANGED <<lock, uptime>>

\* lock.unlink() of the stale lock; FileNotFoundError if it is gone.
acquire_lock_unlink(p) ==
    /\ pc[p] = "unlink"
    /\ IF lock.exists
       THEN lock' = NoLock /\ pc' = [pc EXCEPT ![p] = "write"]
       ELSE lock' = lock /\ pc' = [pc EXCEPT ![p] = "idle"]
    /\ op' = "acquire_lock_unlink"
    /\ LockFrame
    /\ UNCHANGED uptime

\* lock.write_text(str(os.getpid())); return True
acquire_lock_write(p) ==
    /\ pc[p] = "write"
    /\ lock' = LockOf(p)
    /\ pc' = [pc EXCEPT ![p] = "running"]
    /\ op' = "acquire_lock_write"
    /\ LockFrame
    /\ UNCHANGED uptime

\* The finally clause of do_reindex: release_lock removes the lock file,
\* whoever wrote it.
release_lock(p) ==
    /\ pc[p] = "running"
    /\ lock' = NoLock
    /\ pc' = [pc EXCEPT ![p] = "idle"]
    /\ op' = "release_lock"
    /\ LockFrame
    /\ UNCHANGED uptime

\* Half an hour passes.
ClockTick ==
    /\ uptime < MaxUptime
    /\ uptime' = uptime + 1
    /\ op' = "clock"
    /\ LockFrame
    /\ UNCHANGED <<lock, pc>>

(***************************************************************************)
(* The poll cycles: do_reindex of the cron entry point (cronreindex.py)    *)
(* and action_reindex of the daemon (whatsappbot.py).  An invocation of    *)
(* do_reindex that no other invocation interleaves with is one step.       *)
(***************************************************************************)
\* An invocation that, giving up, removes the lock of the holder.
Contended_RemoveLock(file) == NoLock

\* The lock file after an acquire_lock that returned False: as it was.
Contended(file) == file

\* The table when the sources are ingested: purge_expired has run.
CycleStart(tbl, day) == {r \in tbl : ~Expired(r, day)}

do_reindex(p, outcomes) ==
    /\ pc[p] = "idle"
    /\ IF lock.exists /\ ~Stale(lock)
       THEN \* acquire_lock returned False
            /\ cron_result' = <<0, 0>>
            /\ lock' = Contended(lock)
            /\ UNCHANGED <<db, removed, fetched, all_new_jobs,
                           notifications_file, enqueued>>
       ELSE LET purged == CycleStart(db, now)
                r == ReindexLoop(1, purged, <<>>, 0, outcomes)
                existing ==
                    IF notifications_file.kind = "missing" THEN PyList(<<>>)
                    ELSE LoadsOr(notifications_file, PyList(<<>>))
            IN  /\ Len(enqueued) + Len(r.all_new) <= MaxEnqueued
                /\ db' = r.db
                /\ removed' = Cardinality(db) - Cardinality(purged)
                /\ fetched' = outcomes
                /\ all_new_jobs' = r.all_new
                /\ IF r.all_new = <<>>
                   THEN /\ UNCHANGED <<notifications_file, enqueued>>
                        /\ cron_result' = <<0, Cardinality(r.db)>>
                   ELSE IF existing.kind = "dict"
                   THEN \* AttributeError, caught by except Exception
                        /\ UNCHANGED <<notifications_file, enqueued>>
                        /\ cron_result' = <<0, 0>>
                   ELSE /\ notifications_file' =
                              JsonArray(Appended(existing.items, r.all_new,
                                                 now))
                        /\ enqueued' = enqueued \o
                              [i \in 1..Len(r.all_new) |->
                                  NotificationEntry(r.all_new[i], now)]
                        /\ cron_result' =
                              <<Len(r.all_new), Cardinality(r.db)>>
                \* finally: release_lock()
                /\ lock' = NoLock
    /\ error' = "none"
    /\ op' = "do_reindex"
    /\ UNCHANGED <<now, jobs, existing_urls, new_jobs, updated_jobs,
                   total_indexed, total, returned, drained, botVars,
                   splitVars, pc, uptime, sched>>

\* What action_reindex does to the store and the state of the bot: it runs
\* run_reindex, which logs the exception of a source and goes on, and
\* records when it ran and how many jobs were new.
action_reindex_body(outcomes) ==
    LET r == ReindexLoop(1, db, <<>>, 0, outcomes)
    IN  /\ fetched' = outcomes
        /\ db' = r.db
        /\ all_new_jobs' = r.all_new
        /\ total' = r.total
        /\ bot_state' = [bot_state EXCEPT
                           !.last_reindex = now,
                           !.last_reindex_new_count = Len(r.all_new)]
        /\ error' = "none"
        /\ op' = "action_reindex"
        /\ UNCHANGED <<now, jobs, existing_urls, new_jobs, updated_jobs,
                       total_indexed, removed, notifications_file, returned,
                       enqueued, drained, outbox, notify_new, notify_kind,
                       splitVars, lockVars, cron_result>>

action_reindex(outcomes) ==
    /\ action_reindex_body(outcomes)
    /\ UNCHANGED sched

(***************************************************************************)
(* The daemon (whatsappbot.py run_bot): for the morning slot two daily     *)
(* jobs of the schedule library, action_reindex at the slot time and       *)
(* action_morning_notify notify_delay_minutes later, each with a next run  *)
(* of its own, run by the one loop over schedule.run_pending().  The day   *)
(* is before the slot time, between the slot time and the notify time, or  *)
(* after the notify time.  The index file exists when the daemon starts.   *)
(***************************************************************************)
SchedFrame ==
    UNCHANGED <<storeVars, reindexVars, queueVars, botVars, splitVars,
                lockVars, cron_result>>

\* run_bot up to its loop: the jobs are scheduled, each for the next time
\* of day it names.
run_bot ==
    /\ ~sched.started
    /\ sched' = [sched EXCEPT !.started = TRUE]
    /\ SchedFrame

\* The slot time comes: run_pending runs the reindex job.
slot_reindex(outcomes) ==
    /\ sched.started
    /\ sched.phase = "before_slot"
    /\ action_reindex_body(outcomes)
    /\ sched' = [sched EXCEPT !.phase = "after_slot", !.reindexed = TRUE]

\* The notify time comes: run_pending runs the digest job.
slot_notify ==
    /\ sched.started
    /\ sched.phase = "after_slot"
    /\ action_morning_notify_body
    /\ sched' = [sched EXCEPT !.phase = "after_notify"]

\* The slot time or the notify time passes while no daemon runs.
time_passes ==
    /\ ~sched.started
    /\ sched.phase \in {"before_slot", "after_slot"}
    /\ sched' = [sched EXCEPT !.phase = IF @ = "before_slot"
                                        THEN "after_slot"
                                        ELSE "after_notify"]
    /\ SchedFrame

\* The next day begins.
midnight ==
    /\ sched.phase = "after_notify"
    /\ now < MaxDay
    /\ now' = now + 1
    /\ sched' = [sched EXCEPT !.phase = "before_slot", !.reindexed = FALSE]
    /\ op' = "midnight"
    /\ UNCHANGED <<db, jobs, existing_urls, new_jobs, updated_jobs,
                   total_indexed, removed, reindexVars, queueVars, botVars,
                   splitVars, lockVars, cron_result>>

(***************************************************************************)
(* Direct use of the index store: batches of listings are indexed and      *)
(* expired rows purged, on one day.                                        *)
(***************************************************************************)
StaffNurse == JobItem("u1", "Staff Nurse", Empty, Null)

SeniorStaffNurse == JobItem("u1", "Senior Staff Nurse", Empty, Null)

CareAssistant == JobItem("u2", "Care Assistant", Empty, Empty)

Pharmacist == JobItem("u3", "Pharmacist", Empty, Str(ISODate(0)))

IndexListings == {StaffNurse, SeniorStaffNurse, CareAssistant, Pharmacist}

InitStore ==
    /\ db = {}
    /\ now = 1
    /\ op = "init"
    /\ jobs = <<>>
    /\ existing_urls = {}
    /\ new_jobs = <<>>
    /\ updated_jobs = <<>>
    /\ total_indexed = 0
    /\ removed = 0

InitReindex ==
    /\ fetched = [i \in 1..Len(SourceSections) |-> NotFetched]
    /\ all_new_jobs = <<>>
    /\ total = 0

InitQueueVars ==
    /\ returned = PyList(<<>>)
    /\ error = "none"
    /\ enqueued = <<>>
    /\ drained = <<>>

InitQueue ==
    /\ notifications_file = MissingFile
    /\ InitQueueVars

\* BotState._load without a state file; a key that is not set reads as
\* None (-1 here) or as the empty list.
InitBot ==
    /\ bot_state = [last_morning_notify |-> -1, morning_job_urls |-> {},
                    last_notify_urls |-> {}, last_interval_notify |-> -1,
                    last_reindex |-> -1, last_reindex_new_count |-> 0]
    /\ outbox = <<>>
    /\ notify_new = <<>>
    /\ notify_kind = "none"

\* No call of _split_messages yet.
InitSplitVars ==
    /\ split_header = Block("header", 0, 0, 0, "", 0)
    /\ split_entries = <<>>
    /\ split_footer = Block("footer", 0, 0, 0, "", 0)
    /\ split_result = <<>>

\* No lock file, no cron invocation running.
InitLock ==
    /\ lock = NoLock
    /\ pc = [p \in Invocations |-> "idle"]
    /\ uptime = 0

\* No do_reindex has returned; the daemon is not running, the time of day
\* is before the morning slot.
InitCycle ==
    /\ cron_result = <<0, 0>>
    /\ sched = [started |-> FALSE, phase |-> "before_slot",
                reindexed |-> FALSE]

InitRest == InitSplitVars /\ InitLock /\ InitCycle

InitIndex == InitStore /\ InitReindex /\ InitQueue /\ InitBot /\ InitRest

NextIndex ==
    \/ \E batch \in SeqsUpTo(IndexListings, MaxBatch) :
            index_jobs_with_diff(batch)
    \/ purge_expired

SpecIndex == InitIndex /\ [][NextIndex]_vars

UrlSeq(batch) == [i \in 1..Len(batch) |-> batch[i].url]

\* Number of positions of batch that hold URL u.
Occurrences(batch, u) == Cardinality({i \in 1..Len(batch) : batch[i].url = u})

\* C1: every index_jobs_with_diff call classifies the incoming records
\* against the URLs stored immediately before the call: NEW is the
\* subsequence of incoming records whose URL was absent, SEEN the
\* subsequence of those whose URL was present, and total_indexed is the
\* number of incoming records.
C1_SnapshotClassification ==
    [][op' = "index" =>
        /\ new_jobs' = SelectSeq(jobs', LAMBDA j : j.url \notin Urls(db))
        /\ updated_jobs' = SelectSeq(jobs', LAMBDA j : j.url \in Urls(db))
        /\ total_indexed' = Len(jobs')]_vars

\* Store {A}, batch [A, B, C]: NEW = [B, C], SEEN = [A], total_indexed = 3.
C1_Witness ==
    /\ op = "index"
    /\ existing_urls = {"u1"}
    /\ UrlSeq(jobs) = <<"u1", "u2", "u3">>
    /\ UrlSeq(new_jobs) = <<"u2", "u3">>
    /\ UrlSeq(updated_jobs) = <<"u1">>
    /\ total_indexed = 3

\* C2: an index_jobs_with_diff call that repeats the batch of the call
\* right before it (no purge in between) returns an empty NEW list and
\* leaves the row count unchanged.
C2_IdempotentReupsert ==
    [][(op = "index" /\ op' = "index" /\ jobs' = jobs) =>
        /\ new_jobs' = <<>>
        /\ Cardinality(db') = Cardinality(db)]_vars

\* A call whose whole batch of two listings was already stored.
C2_Witness ==
    /\ op = "index"
    /\ Len(jobs) = 2
    /\ jobs[1].url # jobs[2].url
    /\ new_jobs = <<>>
    /\ updated_jobs = jobs
    /\ Cardinality(db) = Cardinality(existing_urls)

\* C3: after index_jobs_with_diff the stored URLs are the URLs stored
\* before the call united with the URLs of the batch, one row per URL.
C3_StoreIsUnion ==
    [][op' = "index" =>
        /\ Urls(db') = Urls(db) \cup BatchUrls(jobs')
        /\ Cardinality(db') = Cardinality(Urls(db) \cup BatchUrls(jobs'))]_vars

\* Store {u1, u2}, batch [u1, u3]: NEW = [u3], SEEN = [u1], three rows.
C3_Witness ==
    /\ op = "index"
    /\ existing_urls = {"u1", "u2"}
    /\ UrlSeq(jobs) = <<"u1", "u3">>
    /\ UrlSeq(new_jobs) = <<"u3">>
    /\ UrlSeq(updated_jobs) = <<"u1">>
    /\ Cardinality(db) = 3

\* C4 as stated: a URL that occurs more than once in a batch and was not
\* stored before the call is in NEW once (its first occurrence) and its
\* later occurrences are in SEEN, so no URL is twice in NEW.
C4_NewAtMostOnce ==
    op = "index" =>
        \A i, k \in 1..Len(new_jobs) :
            i # k => new_jobs[i].url # new_jobs[k].url

\* C4 amended: a URL that was not stored before the call is in NEW as often
\* as it occurs in the batch and never in SEEN; the store keeps one row for
\* it, holding the last occurrence.
C4_EveryOccurrenceNew ==
    [][op' = "index" =>
        \A u \in BatchUrls(jobs') \ Urls(db) :
            /\ Occurrences(new_jobs', u) = Occurrences(jobs', u)
            /\ Occurrences(updated_jobs', u) = 0
            /\ Cardinality({r \in db' : r.url = u}) = 1
            /\ \E i \in 1..Len(jobs') :
                  /\ jobs'[i].url = u
                  /\ \A k \in (i + 1)..Len(jobs') : jobs'[k].url # u
                  /\ \A r \in db' : r.url = u => RowToJob(r) = jobs'[i]]_vars

\* The two different records of u1 in one batch, u1 not stored before.
C4_Witness ==
    /\ op = "index"
    /\ "u1" \notin existing_urls
    /\ jobs = <<StaffNurse, SeniorStaffNurse>>
    /\ new_jobs = jobs
    /\ updated_jobs = <<>>
    /\ {RowToJob(r) : r \in db} \cap {StaffNurse, SeniorStaffNurse}
           = {SeniorStaffNurse}

(***************************************************************************)
(* Expiry: listings with every kind of closing date the connectors store   *)
(* (none, empty, the site's "2 November 2026") or a caller may pass        *)
(* ("2026-11-02") are indexed one at a time, purged, and time passes.      *)
(***************************************************************************)
ExpiryListings ==
    {JobItem("u1", "Indeed role", Empty, Null),
     JobItem("u2", "DWP role", Empty, Empty),
     JobItem("u3", "NHS role", Empty, Str(NHSDate(0))),
     JobItem("u3", "NHS role", Empty, Str(NHSDate(2))),
     JobItem("u4", "Role", Empty, Str(ISODate(0))),
     JobItem("u4", "Role", Empty, Str(ISODate(2)))}

NextExpiry ==
    \/ \E batch \in SeqsUpTo(ExpiryListings, MaxDirectBatch) :
            index_jobs_with_diff(batch)
    \/ purge_expired
    \/ Tick

InitExpiry == InitStore /\ InitReindex /\ InitQueue /\ InitBot /\ InitRest

SpecExpiry == InitExpiry /\ [][NextExpiry]_vars

\* The day a date text denotes, in either of the two formats.
DenotedDay(text) ==
    CHOOSE d \in 0..(MaxDay + 1) : text = ISODate(d) \/ text = NHSDate(d)

\* The closing date of the row is known and lies before the given day.
ClosedBefore(row, day) ==
    /\ ~row.closing_date.null
    /\ row.closing_date.text # <<>>
    /\ DenotedDay(row.closing_date.text) < day

NoClosingDate(row) ==
    row.closing_date.null \/ row.closing_date.text = <<>>

\* C5: purge_expired removes exactly the rows whose closing date is
\* non-empty and earlier than the current date, keeps the rows closing
\* today or later, and returns the number of rows removed.
C5_PurgeRemovesPastClosingDates ==
    [][op' = "purge" =>
        /\ db' = {r \in db : ~ClosedBefore(r, now)}
        /\ removed' = Cardinality(db) - Cardinality(db')]_vars

\* C6: a row whose closing date is NULL or the empty string is never
\* removed by purge_expired.
C6_NoClosingDateNeverPurged ==
    [][op' = "purge" => \A r \in db : NoClosingDate(r) => r \in db']_vars
(***************************************************************************)
(* Reindex over the configured sources: every connector either raises or   *)
(* returns a batch; expired rows are purged between reindexes.             *)
(***************************************************************************)
Midwife == JobItem("u1", "Midwife", Empty, Null)

Radiographer == JobItem("u2", "Radiographer", Empty, Str(ISODate(0)))

\* The batches a connector may return.
SourceBatches == {<<>>, <<Midwife>>, <<Radiographer>>}

InitAllSources == InitStore /\ InitReindex /\ InitQueue /\ InitBot /\ InitRest

NextReindex ==
    \/ \E outcomes \in ConnectorOutcomes(SourceBatches) :
            reindex_all_sources(outcomes)
    \/ \E outcomes \in ConnectorOutcomes(SourceBatches) :
            run_reindex(outcomes)
    \/ purge_expired

SpecReindex == InitAllSources /\ [][NextReindex]_vars

\* The new records of the sources from i on that returned a batch, in
\* source order, given the URLs stored or indexed so far.
RECURSIVE NewOfSuccessful(_, _, _)
NewOfSuccessful(i, outcomes, seen) ==
    IF i > Len(SourceSections) THEN <<>>
    ELSE IF i \notin Fetchable \/ outcomes[i].raised
    THEN NewOfSuccessful(i + 1, outcomes, seen)
    ELSE SelectSeq(outcomes[i].items, LAMBDA j : j.url \notin seen)
         \o NewOfSuccessful(i + 1, outcomes,
                            seen \cup BatchUrls(outcomes[i].items))

\* C7: in a reindex, whichever connectors raise, every source whose
\* connector returned is indexed, the sources that raised add nothing to
\* the store, and the result is the concatenation, in source order, of the
\* new records of the sources that returned.
C7_CrossSourceIsolation ==
    [][op' \in {"reindex_all_sources", "run_reindex"} =>
        /\ \A i \in Fetchable :
              ~fetched'[i].raised => BatchUrls(fetched'[i].items) \subseteq Urls(db')
        /\ Urls(db') = Urls(db) \cup
              UNION {BatchUrls(fetched'[i].items) :
                        i \in {k \in Fetchable : ~fetched'[k].raised}}
        /\ all_new_jobs' = NewOfSuccessful(1, fetched', Urls(db))]_vars

\* The connector of the second fetched source raised; the first and the
\* last each returned one listing, both new, and both are in the result.
C7_Witness ==
    /\ op \in {"reindex_all_sources", "run_reindex"}
    /\ fetched[1] = Returned(<<Midwife>>)
    /\ fetched[3] = Raised
    /\ fetched[4] = Returned(<<Radiographer>>)
    /\ all_new_jobs = <<Midwife, Radiographer>>
    /\ Urls(db) = {"u1", "u2"}
(***************************************************************************)
(* The pending queue used by one process: lists of new jobs are enqueued,  *)
(* the queue is peeked at and drained.                                     *)
(***************************************************************************)
SeniorNurse == JobItem("u10", "Senior Nurse", Empty, Null)

HCA == JobItem("u11", "HCA", Empty, Null)

QueueListings == {SeniorNurse, HCA}

InitPending == InitStore /\ InitReindex /\ InitQueue /\ InitBot /\ InitRest

NextQueue ==
    \/ \E batch \in SeqsUpTo(QueueListings, MaxEnqueue) :
            write_notifications(batch)
    \/ read_pending_notifications
    \/ consume_notifications

SpecQueue == InitPending /\ [][NextQueue]_vars

\* The entries in the file, none if it is missing or not a JSON array.
Pending(file) == IF file.kind = "array" THEN file.items ELSE <<>>

\* C8: peek returns the pending list and leaves it as it is; enqueue
\* appends one entry per record, in record order, after the existing
\* entries; drain returns the pending list and leaves the queue empty; so
\* the entries drained so far followed by the pending ones are exactly the
\* entries enqueued, each once and in order.
C8_QueueDiscipline ==
    /\ [][/\ (op' = "read_pending_notifications" =>
               (/\ returned' = PyList(Pending(notifications_file))
                /\ Pending(notifications_file') = Pending(notifications_file)))
           /\ (op' = "write_notifications" =>
               (/\ Pending(notifications_file')
                      = Pending(notifications_file)
                        \o SubSeq(enqueued', Len(enqueued) + 1, Len(enqueued'))
                /\ error' = "none"))
           /\ (op' = "consume_notifications" =>
               (/\ returned' = PyList(Pending(notifications_file))
                /\ Pending(notifications_file') = <<>>))]_vars
    /\ [](drained \o Pending(notifications_file) = enqueued)

\* Three entries were enqueued in two calls, one drain returned all three,
\* and a peek after it returns none.
C8_Witness ==
    /\ op = "read_pending_notifications"
    /\ returned = PyList(<<>>)
    /\ Len(enqueued) = 3
    /\ drained = enqueued
    /\ notifications_file = JsonArray(<<>>)

(***************************************************************************)
(* The same operations on a queue file that starts out missing or          *)
(* corrupt.                                                                *)
(***************************************************************************)
InitCorrupt ==
    /\ InitStore
    /\ InitReindex
    /\ notifications_file \in {MissingFile, InvalidJson, JsonObject}
    /\ InitQueueVars
    /\ InitBot
    /\ InitRest

SpecCorrupt == InitCorrupt /\ [][NextQueue]_vars

NotAJsonArray(file) == file.kind \in {"missing", "invalid", "object"}

\* C9: when the queue file is missing or is not a parseable JSON array,
\* read_pending_notifications and consume_notifications return an empty
\* list, write_notifications writes the new entries as if the queue were
\* empty, and none of the three raises.
C9_CorruptFileIsEmptyQueue ==
    [][NotAJsonArray(notifications_file) =>
        /\ (op' \in {"read_pending_notifications", "consume_notifications"}
              => (returned' = PyList(<<>>) /\ error' = "none"))
        /\ (op' = "write_notifications"
              => (/\ error' = "none"
                  /\ notifications_file'.kind = "array"
                  /\ Len(notifications_file'.items)
                        = Len(enqueued') - Len(enqueued)))]_vars
(***************************************************************************)
(* The digest slot: listings are indexed, expire and are purged, days      *)
(* pass, and the morning digest is sent.                                   *)
(***************************************************************************)
\* "3 days ago", the relative date Indeed shows.
ThreeDaysAgo == <<51, 32, 100, 97, 121, 115, 32, 97, 103, 111>>

BotListings ==
    {JobItem("u1", "Staff Nurse", Str(ISODate(1)), Null),
     JobItem("u2", "HCA", Str(ThreeDaysAgo), Str(ISODate(1)))}

InitDigest == InitStore /\ InitReindex /\ InitQueue /\ InitBot /\ InitRest

NextDigest ==
    \/ \E batch \in SeqsUpTo(BotListings, MaxDirectBatch) :
            index_jobs_with_diff(batch)
    \/ purge_expired
    \/ Tick
    \/ action_morning_notify

SpecDigest == InitDigest /\ [][NextDigest]_vars

\* C10: action_morning_notify always sends at least one message, and when
\* there are no new jobs it sends exactly one, which carries the number of
\* rows in the index.
C10_DigestAlwaysFires ==
    [][op' = "action_morning_notify" =>
        /\ Len(outbox') >= 1
        /\ notify_new' = <<>> =>
             /\ Len(outbox') = 1
             /\ \E i \in 1..Len(outbox'[1].body) :
                   /\ outbox'[1].body[i].kind = "no_new"
                   /\ outbox'[1].body[i].total = Cardinality(db)]_vars

\* A digest over a non-empty index in which nothing is new since the last
\* digest: one message, sent.
C10_Witness ==
    /\ op = "action_morning_notify"
    /\ notify_new = <<>>
    /\ db # {}
    /\ Urls(db) \subseteq bot_state.morning_job_urls
    /\ Len(outbox) = 1
    /\ outbox[1].ok
    /\ outbox[1].body[1].total = Cardinality(db)
(***************************************************************************)
(* The scheduler slots of one day: listings are indexed and purged, the    *)
(* morning digest and the interval alerts run.                             *)
(***************************************************************************)
\* One listing that closed yesterday and is posted today, two without dates.
NotifyListings ==
    {JobItem("u1", "NHS role", Str(ISODate(1)), Str(ISODate(0))),
     JobItem("indeed-a", "Indeed role", Str(ThreeDaysAgo), Null),
     JobItem("indeed-b", "Indeed role", Str(ThreeDaysAgo), Null)}

InitNotify == InitStore /\ InitReindex /\ InitQueue /\ InitBot /\ InitRest

NextNotify ==
    \/ \E job \in NotifyListings : index_jobs_with_diff(<<job>>)
    \/ purge_expired
    \/ action_morning_notify
    \/ action_interval_notify

SpecNotify == InitNotify /\ [][NextNotify]_vars

\* The last notify action handed messages to the transport and every send
\* succeeded / some send failed.
SentOk(box) == box # <<>> /\ \A i \in 1..Len(box) : box[i].ok

SendFailed(box) == \E i \in 1..Len(box) : ~box[i].ok

\* C11: an alert sends only if some URL of the store is absent from
\* last_notify_urls; when there is none it sends no message and leaves every
\* key of the state as it was.
C11_AlertOnlyOnNew ==
    [][op' = "action_interval_notify" =>
        /\ (outbox' # <<>> => Urls(db) \ bot_state.last_notify_urls # {})
        /\ (Urls(db) \subseteq bot_state.last_notify_urls =>
              outbox' = <<>> /\ bot_state' = bot_state)]_vars

\* An alert over a non-empty index all of whose URLs are in a non-empty
\* baseline: nothing was sent.
C11_Witness ==
    /\ op = "action_interval_notify"
    /\ db # {}
    /\ bot_state.last_notify_urls # {}
    /\ Urls(db) \subseteq bot_state.last_notify_urls
    /\ outbox = <<>>

\* C12: when the send of any part of a digest or an alert fails, every key
\* of the state (last_notify_urls, morning_job_urls, the timestamps) keeps
\* its value, and the action ends without an error.
C12_FailedSendKeepsBaseline ==
    [][(/\ op' \in {"action_morning_notify", "action_interval_notify"}
        /\ SendFailed(outbox')) =>
            bot_state' = bot_state /\ error' = "none"]_vars

\* An alert in two parts of which only the second failed, over an index
\* that has URLs outside the baseline.
C12_Witness ==
    /\ op = "action_interval_notify"
    /\ Len(outbox) = 2
    /\ outbox[1].ok
    /\ ~outbox[2].ok
    /\ Urls(db) \ bot_state.last_notify_urls # {}
\* C18: after a notification that was sent successfully last_notify_urls
\* is the set of URLs of the store; a digest also sets morning_job_urls to
\* that set, an alert leaves morning_job_urls as it was.
C18_BaselineResetOnSuccess ==
    [][(/\ op' \in {"action_morning_notify", "action_interval_notify"}
        /\ SentOk(outbox')) =>
            /\ bot_state'.last_notify_urls = Urls(db')
            /\ (op' = "action_morning_notify" =>
                   bot_state'.morning_job_urls = Urls(db'))
            /\ (op' = "action_interval_notify" =>
                   bot_state'.morning_job_urls = bot_state.morning_job_urls)
      ]_vars

\* A successful alert after which the two baselines differ: the store has
\* a URL the last digest did not see.
C18_Witness ==
    /\ op = "action_interval_notify"
    /\ SentOk(outbox)
    /\ bot_state.last_notify_urls = Urls(db)
    /\ bot_state.morning_job_urls # {}
    /\ bot_state.morning_job_urls # bot_state.last_notify_urls

\* C19: when the notification of a cycle failed, every record of its NEW
\* set that is still in the store is in the NEW set of the next cycle,
\* digest or alert.
C19_FailedNewRetried ==
    [][(/\ op' \in {"action_morning_notify", "action_interval_notify"}
        /\ notify_kind # "none"
        /\ SendFailed(outbox)) =>
            \A i \in 1..Len(notify_new) :
                notify_new[i].url \in Urls(db) =>
                    notify_new[i].url \in BatchUrls(notify_new')]_vars

\* C20: an alert includes no record whose URL is in last_notify_urls, and
\* every record of a successfully sent notification has its URL in
\* last_notify_urls afterwards.
C20_NoReannouncement ==
    [][(op' = "action_interval_notify" =>
            BatchUrls(notify_new') \cap bot_state.last_notify_urls = {})
       /\ ((/\ op' \in {"action_morning_notify", "action_interval_notify"}
            /\ SentOk(outbox')) =>
               BatchUrls(notify_new') \subseteq bot_state'.last_notify_urls)
      ]_vars

\* An alert that announces a record while a record announced before is
\* still in the store.
C20_Witness ==
    /\ op = "action_interval_notify"
    /\ SentOk(outbox)
    /\ notify_new # <<>>
    /\ Urls(db) \ BatchUrls(notify_new) # {}
    /\ bot_state.morning_job_urls \cap Urls(db) # {}

(***************************************************************************)
(* _split_messages called on headers, entries and footers of chosen        *)
(* lengths.                                                                *)
(***************************************************************************)
\* Twilio rejects a WhatsApp body of more than 1600 characters.
TWILIO_BODY_CAP == 1600

\* No header, the header of a digest, a header close to the limit.
HeaderLens == {0, 100, 1450}

\* No footer (the alert) and the footer of a digest.
FooterLens == {0, 32}

\* A short entry, one of half a message, one that no message can hold.
EntryLens == {40, 700, 1600}

split_messages_call ==
    \E h \in HeaderLens, f \in FooterLens,
       lens \in SeqsUpTo(EntryLens, MaxEntries) :
        LET entries == [i \in 1..Len(lens) |->
                           Block("entry", lens[i], i, 0, "", 0)]
        IN  /\ split_header' = Block("header", h, 0, 0, "", 0)
            /\ split_footer' = Block("footer", f, 0, 0, "", 0)
            /\ split_entries' = entries
            /\ split_result' = _split_messages(split_header', entries,
                                               split_footer')
            /\ op' = "_split_messages"
            /\ UNCHANGED <<db, now, jobs, existing_urls, new_jobs,
                           updated_jobs, total_indexed, removed, reindexVars,
                           queueVars, botVars, lockVars, cycleVars>>

InitSplit == InitStore /\ InitReindex /\ InitQueue /\ InitBot /\ InitRest

NextSplit == split_messages_call

SpecSplit == InitSplit /\ [][NextSplit]_vars

Called == op = "_split_messages"

\* C13: every message _split_messages returns has at most 1500 characters
\* when it is the only one, and at most 1600 with its part marker when
\* there are several.
C13_MessagesWithinLimit ==
    Called =>
        \A i \in 1..Len(split_result) :
            IF Len(split_result) > 1
            THEN MsgLen(split_result[i]) <= TWILIO_BODY_CAP
            ELSE MsgLen(split_result[i]) <= WHATSAPP_CHAR_LIMIT

EntriesOf(msg) == SelectSeq(msg, LAMBDA b : b.kind = "entry")

RECURSIVE AllEntries(_)
AllEntries(msgs) ==
    IF msgs = <<>> THEN <<>>
    ELSE EntriesOf(Head(msgs)) \o AllEntries(Tail(msgs))

\* C14: the entries of the returned messages, read message after message
\* with markers, header and footer left out, are the input entries: each
\* one once, whole, in input order, whatever its length.
C14_EntriesPreserved ==
    Called => AllEntries(split_result) = split_entries

\* A call with an entry longer than the limit among others, answered with
\* several messages.
C14_Witness ==
    /\ Called
    /\ Len(split_result) >= 2
    /\ \E i \in 1..Len(split_entries) :
          split_entries[i].len > WHATSAPP_CHAR_LIMIT
    /\ \E i \in 1..Len(split_entries) :
          split_entries[i].len <= WHATSAPP_CHAR_LIMIT

KindsOf(msg) == {msg[k].kind : k \in 1..Len(msg)}

\* C15: of N > 1 messages the i-th starts with the marker [i/N]; a single
\* message has no marker; the header is in the first message only, right
\* after the marker, and the footer ends the last message only.
C15_MarkersAndFraming ==
    Called =>
        LET n == Len(split_result)
            first == IF n > 1 THEN 2 ELSE 1
        IN  /\ n >= 1
            /\ \A i \in 1..n :
                  LET msg == split_result[i]
                  IN  /\ (n > 1 => /\ msg[1].kind = "marker"
                                   /\ msg[1].part = i
                                   /\ msg[1].of = n)
                      /\ (n = 1 => "marker" \notin KindsOf(msg))
                      /\ \A k \in 2..Len(msg) : msg[k].kind # "marker"
                      /\ (i > 1 => "header" \notin KindsOf(msg))
                      /\ (i < n => "footer" \notin KindsOf(msg))
            /\ (split_header.len > 0 =>
                  /\ split_result[1][first] = split_header
                  /\ \A k \in 1..Len(split_result[1]) :
                        split_result[1][k].kind = "header" => k = first)
            /\ (split_footer.len > 0 =>
                  /\ split_result[n][Len(split_result[n])] = split_footer
                  /\ \A k \in 1..Len(split_result[n]) :
                        split_result[n][k].kind = "footer" =>
                            k = Len(split_result[n]))

\* Three messages with a header and a footer.
C15_Witness ==
    /\ Called
    /\ Len(split_result) = 3
    /\ split_header.len > 0
    /\ split_footer.len > 0
    /\ split_result[3][1].kind = "marker"
    /\ split_result[3][1].part = 3
    /\ split_result[3][1].of = 3
(***************************************************************************)
(* Cron invocations of do_reindex that overlap in time.                    *)
(***************************************************************************)
InitInvocations == InitStore /\ InitReindex /\ InitQueue /\ InitBot /\ InitRest

NextLock ==
    \/ \E p \in Invocations :
          \/ acquire_lock_exists(p)
          \/ acquire_lock_stat(p)
          \/ acquire_lock_unlink(p)
          \/ acquire_lock_write(p)
          \/ release_lock(p)
    \/ ClockTick

SpecLock == InitInvocations /\ [][NextLock]_vars

\* The invocations between an acquire_lock that returned True and their
\* release_lock.
Holders == {p \in Invocations : pc[p] = "running"}

\* C16: while the lock file is less than one hour old, at most one
\* invocation is between its successful acquire_lock and its release_lock.
C16_MutualExclusion ==
    (lock.exists /\ ~Stale(lock)) => Cardinality(Holders) <= 1
(***************************************************************************)
(* Batches that may hold a record without a URL.                           *)
(***************************************************************************)
\* JobItem(url=''): bool() of it is False.
BlankUrlItem == JobItem("", "Role", Null, Null)

BlankUrlListings ==
    {BlankUrlItem, StaffNurse, SeniorStaffNurse, CareAssistant, Pharmacist}

InitBlankUrl == InitStore /\ InitReindex /\ InitQueue /\ InitBot /\ InitRest

NextBlankUrl ==
    \/ \E batch \in SeqsUpTo(BlankUrlListings, MaxDirectBatch) :
            index_jobs_with_diff(batch)
    \/ purge_expired

SpecBlankUrl == InitBlankUrl /\ [][NextBlankUrl]_vars

WithUrl(batch) == SelectSeq(batch, LAMBDA j : j.url # "")

\* C17: no row of the store has an empty URL, and a record with an empty
\* URL given to index_jobs_with_diff is in neither returned list nor in the
\* returned count.
C17_NoEmptyUrl ==
    /\ "" \notin Urls(db)
    /\ op = "index" =>
          /\ "" \notin BatchUrls(new_jobs)
          /\ "" \notin BatchUrls(updated_jobs)
          /\ total_indexed = Len(WithUrl(jobs))
(***************************************************************************)
(* Poll cycles of the cron entry point and of the daemon over one store,   *)
(* while another cron invocation takes and releases the lock.              *)
(***************************************************************************)
\* A listing that closed yesterday and one that is open, with all the
\* attributes a notification entry carries.
ClosedPost ==
    [JobItem("u1", "Staff Nurse", Str(ISODate(1)), Str(ISODate(0)))
        EXCEPT !.employer = "Trust X", !.location = "London",
               !.salary = "40,000", !.contract_type = "Permanent",
               !.working_pattern = "Full time", !.source = "nhs"]

OpenPost ==
    [JobItem("u2", "HCA", Str(ISODate(1)), Null)
        EXCEPT !.employer = "Care Co", !.location = "Manchester",
               !.source = "dwp"]

\* What the three connectors may do in a cycle.
CycleOutcomes ==
    {[i \in 1..Len(SourceSections) |->
         CASE SourceSections[i].type = "nhs" -> n
           [] SourceSections[i].type = "dwp" -> d
           [] SourceSections[i].type = "indeed" -> x
           [] OTHER -> NotFetched] :
        n \in {Returned(<<ClosedPost>>), StorageFailed(<<ClosedPost>>)},
        d \in {Returned(<<>>), Returned(<<OpenPost>>)},
        x \in {Returned(<<>>)}}

InitCycles == InitStore /\ InitReindex /\ InitQueue /\ InitBot /\ InitRest

NextCycles ==
    \/ \E outcomes \in CycleOutcomes : do_reindex("cron1", outcomes)
    \/ \E outcomes \in CycleOutcomes : action_reindex(outcomes)
    \/ acquire_lock_exists("cron2")
    \/ acquire_lock_write("cron2")
    \/ release_lock("cron2")

SpecCycles == InitCycles /\ [][NextCycles]_vars

\* The URLs of the batches that were fetched and indexed in the last cycle.
IngestedUrls(outcomes) ==
    UNION {BatchUrls(outcomes[i].items) :
              i \in {k \in 1..Len(outcomes) : ~outcomes[k].raised}}

\* The step is a poll cycle that got to work: do_reindex past its lock, or
\* action_reindex.
CycleRan ==
    \/ op' = "action_reindex"
    \/ op' = "do_reindex" /\ ~(lock.exists /\ ~Stale(lock))

\* C21: in every poll cycle, of cron or of the daemon, the expired rows are
\* purged before the sources are ingested: a URL whose row was expired
\* when the cycle began and that a source delivers in the cycle is NEW.
C21_PurgeBeforeIngest ==
    [][CycleRan =>
        \A r \in db :
            (Expired(r, now) /\ r.url \in IngestedUrls(fetched')) =>
                r.url \in BatchUrls(all_new_jobs')]_vars

\* The sources whose batch was fetched and whose index_jobs_with_diff
\* raised in the last cycle.
StorageFailures(outcomes) ==
    {i \in 1..Len(outcomes) :
        outcomes[i].raised /\ outcomes[i].items # <<>>}

\* C22: a storage failure in index_jobs_with_diff commits no record of the
\* batch and is fatal: the cycle ends with the error raised to its caller.
C22_StorageFailureFatal ==
    [][(CycleRan /\ StorageFailures(fetched') # {}) =>
          /\ \A i \in StorageFailures(fetched') :
                 \A r \in db' :
                     r.url \in BatchUrls(fetched'[i].items) => r \in db
          /\ error' # "none"]_vars

\* The entry of the queue carries the attributes of the listing.
Carries(entry, job) ==
    /\ entry.url = job.url
    /\ entry.title = job.title
    /\ entry.employer = job.employer
    /\ entry.location = job.location
    /\ entry.salary = job.salary
    /\ entry.contract_type = job.contract_type
    /\ entry.working_pattern = job.working_pattern
    /\ entry.source = job.source

\* C25: every record classified NEW in a cycle yields exactly one entry
\* appended to the pending queue in that cycle, carrying the attributes of
\* the record; a cycle with no NEW record leaves the queue unchanged.
C25_OneEntryPerNew ==
    [][CycleRan =>
          /\ Len(enqueued') = Len(enqueued) + Len(all_new_jobs')
          /\ \A k \in 1..Len(all_new_jobs') :
                 /\ Len(enqueued) + k <= Len(enqueued')
                 /\ Carries(enqueued'[Len(enqueued) + k], all_new_jobs'[k])
          /\ notifications_file'.kind = "array"
                 => notifications_file'.items = enqueued'
          /\ all_new_jobs' = <<>>
                 => notifications_file' = notifications_file]_vars

\* C26: a do_reindex that finds a fresh lock of another invocation returns
\* (0, 0), leaves the store and the pending queue as they were, purges,
\* indexes and enqueues nothing, and leaves the lock where it is.
C26_ContentionIsNoOp ==
    [][(op' = "do_reindex" /\ lock.exists /\ ~Stale(lock)) =>
          /\ cron_result' = <<0, 0>>
          /\ db' = db
          /\ removed' = removed
          /\ all_new_jobs' = all_new_jobs
          /\ notifications_file' = notifications_file
          /\ enqueued' = enqueued
          /\ lock' = lock]_vars

\* do_reindex has just given up on the lock of the other invocation, with
\* rows in the store and entries in the queue.
C26_Witness ==
    /\ op = "do_reindex"
    /\ lock.exists
    /\ lock.pid = "cron2"
    /\ pc["cron2"] = "running"
    /\ cron_result = <<0, 0>>
    /\ db # {}
    /\ enqueued # <<>>

(***************************************************************************)
(* Upserts: the same URL is indexed again, with all its attributes or with *)
(* none but the title, on the same day or on a later one.                  *)
(***************************************************************************)
\* The listing of ClosedPost as a connector delivers it that fills in the
\* URL and the title only.
BarePost == JobItem("u1", "Staff Nurse", Empty, Null)

UpsertListings == {ClosedPost, BarePost, OpenPost}

InitUpsert == InitStore /\ InitReindex /\ InitQueue /\ InitBot /\ InitRest

NextUpsert ==
    \/ \E batch \in SeqsUpTo(UpsertListings, MaxBatch) :
            index_jobs_with_diff(batch)
    \/ Tick

SpecUpsert == InitUpsert /\ [][NextUpsert]_vars

\* The last record of the batch with URL u.
LastWith(batch, u) ==
    batch[CHOOSE i \in 1..Len(batch) :
              /\ batch[i].url = u
              /\ \A k \in (i + 1)..Len(batch) : batch[k].url # u]

\* C23: after index_jobs_with_diff the stored record of every URL of the
\* batch equals the last record of the batch with that URL on every
\* attribute, the empty ones included, and the rows of the other URLs are
\* as they were.
C23_FullRecordReplace ==
    [][op' = "index" =>
          /\ \A u \in BatchUrls(jobs') :
                 {RowToJob(r) : r \in {q \in db' : q.url = u}}
                     = {LastWith(jobs', u)}
          /\ {r \in db' : r.url \notin BatchUrls(jobs')}
                 = {r \in db : r.url \notin BatchUrls(jobs')}]_vars

\* The stored listing of u1 has just been replaced by the bare one, beside
\* the row of another URL that the batch did not contain.
C23_Witness ==
    /\ op = "index"
    /\ jobs = <<ClosedPost, BarePost>>
    /\ "u1" \in existing_urls
    /\ \E r \in db : RowToJob(r) = BarePost
    /\ \E r \in db : r.url = "u2" /\ r.indexed_at < now

\* C24: the indexed_at of a URL is set when the URL is first written and is
\* left as it is by every later upsert of the URL.
C24_IndexedAtKept ==
    [][op' = "index" =>
          \A r \in db : \A q \in db' :
              q.url = r.url => q.indexed_at = r.indexed_at]_vars

\* C28: over calls of index_jobs_with_diff with no purge in between, a URL
\* is in the NEW list of the first call whose batch contains it and of no
\* other, and in the SEEN list of every later call whose batch contains
\* it.  With nothing deleted, the URLs of the store before a call are the
\* URLs of the batches of all the calls before.
C28_NewExactlyOnce ==
    [][op' = "index" =>
          /\ Urls(db') = Urls(db) \cup BatchUrls(jobs')
          /\ \A u \in BatchUrls(jobs') \ Urls(db) :
                 /\ u \in BatchUrls(new_jobs')
                 /\ u \notin BatchUrls(updated_jobs')
          /\ \A u \in BatchUrls(jobs') \cap Urls(db) :
                 /\ u \in BatchUrls(updated_jobs')
                 /\ u \notin BatchUrls(new_jobs')
          /\ BatchUrls(new_jobs') \cup BatchUrls(updated_jobs')
                 = BatchUrls(jobs')]_vars

\* A call on a later day whose batch holds u1, stored by an earlier call,
\* and u2 for the first time.
C28_Witness ==
    /\ op = "index"
    /\ jobs = <<BarePost, OpenPost>>
    /\ existing_urls = {"u1"}
    /\ new_jobs = <<OpenPost>>
    /\ updated_jobs = <<BarePost>>
    /\ \E r \in db : r.url = "u2" /\ r.indexed_at > 1

\* C29: release_lock of one invocation never removes the lock file that a
\* different invocation wrote and still holds, also when the lock of the
\* first was taken over as stale.
C29_ReleaseOwnLockOnly ==
    [][\A p \in Invocations :
          (op' = "release_lock" /\ pc[p] = "running" /\ pc'[p] = "idle") =>
              ~(/\ lock.exists
                /\ lock.pid # p
                /\ pc[lock.pid] = "running"
                /\ ~lock'.exists)]_vars

\* C30: with last_notify_urls empty or absent action_interval_notify sends
\* nothing and changes no key of the state of the bot, whatever the store
\* holds; an alert is sent only when a digest has succeeded before and the
\* baseline is not empty.
C30_NoAlertWithoutBaseline ==
    [][op' = "action_interval_notify" =>
          /\ bot_state.last_notify_urls = {}
                 => (outbox' = <<>> /\ bot_state' = bot_state)
          /\ outbox' # <<>>
                 => /\ bot_state.last_notify_urls # {}
                    /\ bot_state.last_morning_notify # -1]_vars

\* An alert has just been skipped for want of a baseline, with rows in
\* the store and after a digest that succeeded on an empty store.
C30_Witness ==
    /\ op = "action_interval_notify"
    /\ bot_state.last_notify_urls = {}
    /\ bot_state.last_morning_notify # -1
    /\ db # {}
    /\ outbox = <<>>

(***************************************************************************)
(* The daemon over the days: it is started at some time of some day and    *)
(* runs its two jobs of the morning slot.                                  *)
(***************************************************************************)
InitSchedule == InitStore /\ InitReindex /\ InitQueue /\ InitBot /\ InitRest

NextSchedule ==
    \/ run_bot
    \/ \E outcomes \in CycleOutcomes : slot_reindex(outcomes)
    \/ slot_notify
    \/ time_passes
    \/ midnight

SpecSchedule == InitSchedule /\ [][NextSchedule]_vars

\* C27: the digest is sent only after the reindex of its slot has run and
\* succeeded: no digest for a slot whose reindex did not run or in which a
\* source failed.
C27_DigestAfterReindex ==
    [][(op' = "action_morning_notify" /\ sched'.phase = "after_notify"
           /\ sched.phase = "after_slot" /\ outbox' # <<>>) =>
          /\ sched.reindexed
          /\ \A i \in 1..Len(fetched) : ~fetched[i].raised]_vars
====
